---- MODULE Spec2Model ----
(***************************************************************************)
(* Model of src/kv/value/internal.rs: the Inner container, its dispatch    *)
(* (Inner::visit), the Visitor contract, the coercion visitor and the      *)
(* typed projections, the formatting visitor, and sval_support::coerce.    *)
(*                                                                         *)
(* Representation.  Characters are their code points, text is a sequence   *)
(* of code points, and every primitive payload is a tuple of integers:     *)
(*   Unsigned(n) <<n>>, Signed(n) <<n>>, Bool(b) <<0>> or <<1>>,           *)
(*   Char(c) <<c>>, Str(s) the code points of s, None <<>>,                *)
(*   Float(w.t) <<w, t>> (whole part w, one decimal digit t).              *)
(***************************************************************************)
EXTENDS Integers, Sequences, FiniteSets, TLC

\* ------------------------------------------------------------------ bounds
MaxStrLen == 1
MaxTokens == 2

\* ------------------------------------------------------------ input values
Alphabet == {97, 34}

RECURSIVE StrsUpTo(_)
StrsUpTo(n) ==
    IF n = 0 THEN {<<>>}
    ELSE LET shorter == StrsUpTo(n - 1)
         IN  shorter \cup {Append(s, ch) : s \in shorter, ch \in Alphabet}

StrVals == StrsUpTo(MaxStrLen)
U64Vals == {0, 42}
I64Vals == {-7, 42}
F64Vals == {<<42, 0>>, <<1, 5>>}
BoolVals == {0, 1}
CharVals == {97, 39}

\* ---------------------------------------------------------------- Primitive
Unsigned(n) == [kind |-> "Unsigned", val |-> <<n>>]
Signed(n) == [kind |-> "Signed", val |-> <<n>>]
Float(f) == [kind |-> "Float", val |-> f]
Bool(b) == [kind |-> "Bool", val |-> <<b>>]
Char(ch) == [kind |-> "Char", val |-> <<ch>>]
Str(s) == [kind |-> "Str", val |-> s]
PNone == [kind |-> "None", val |-> <<>>]

Primitive ==
    {Unsigned(n) : n \in U64Vals} \cup {Signed(n) : n \in I64Vals}
    \cup {Float(f) : f \in F64Vals} \cup {Bool(b) : b \in BoolVals}
    \cup {Char(ch) : ch \in CharVals} \cup {Str(s) : s \in StrVals}
    \cup {PNone}

\* Option<T>
Some(v) == [some |-> TRUE, val |-> v]
NoneOpt == [some |-> FALSE, val |-> <<>>]

\* ------------------------------------------------------------------ Coerced
CoercedPrimitive(p) == [tag |-> "Primitive", kind |-> p.kind, val |-> p.val]
CoercedString(s) == [tag |-> "String", kind |-> "Str", val |-> s]

into_primitive(cd) ==
    IF cd.tag = "Primitive" THEN [kind |-> cd.kind, val |-> cd.val] ELSE PNone

into_str(p) == IF p.kind = "Str" THEN Some(p.val) ELSE NoneOpt

into_u64_widening(p) ==
    IF p.kind \in {"Unsigned", "Signed"} THEN Some(p.val) ELSE NoneOpt
into_u64(p) == IF p.kind = "Unsigned" THEN Some(p.val) ELSE NoneOpt

into_i64(p) == IF p.kind = "Signed" THEN Some(p.val) ELSE NoneOpt

into_f64(p) == IF p.kind = "Float" THEN Some(p.val) ELSE NoneOpt

into_char(p) == IF p.kind = "Char" THEN Some(p.val) ELSE NoneOpt

into_bool(p) == IF p.kind = "Bool" THEN Some(p.val) ELSE NoneOpt

into_string(cd) ==
    IF cd.tag = "Primitive" /\ cd.kind = "Str" THEN Some(cd.val)
    ELSE IF cd.tag = "String" THEN Some(cd.val)
    ELSE NoneOpt

\* ------------------------------------------------- debug text of primitives
RECURSIVE Digits(_)
Digits(n) ==
    IF n < 10 THEN <<48 + n>> ELSE Append(Digits(n \div 10), 48 + (n % 10))

IntText(n) == IF n < 0 THEN <<45>> \o Digits(0 - n) ELSE Digits(n)

RECURSIVE Escaped(_, _)
Escaped(s, special) ==
    IF s = <<>> THEN <<>>
    ELSE (IF Head(s) \in special THEN <<92, Head(s)>> ELSE <<Head(s)>>)
         \o Escaped(Tail(s), special)

NoneText == <<78, 111, 110, 101>>

DebugText(p) ==
    CASE p.kind = "Unsigned" -> IntText(p.val[1])
      [] p.kind = "Signed" -> IntText(p.val[1])
      [] p.kind = "Float" -> IntText(p.val[1]) \o <<46>> \o Digits(p.val[2])
      [] p.kind = "Bool" ->
            IF p.val[1] = 1 THEN <<116, 114, 117, 101>>
            ELSE <<102, 97, 108, 115, 101>>
      [] p.kind = "Char" -> <<39>> \o Escaped(p.val, {39, 92}) \o <<39>>
      [] p.kind = "Str" -> <<34>> \o Escaped(p.val, {34, 92}) \o <<34>>
      [] OTHER -> NoneText

\* ------------------------------------------- referenced (borrowed) values
\* A value behind &dyn fmt::Debug / &dyn fmt::Display: the text its own
\* Debug and Display implementations write.
ExtVals ==
    { [dbg |-> <<34, 120, 34>>, disp |-> <<120>>],
      [dbg |-> <<55>>, disp |-> <<55>>] }

Result == {"Ok", "Err"}

\* A value behind &dyn sval::Value: the stream calls its `stream` makes, in
\* order, and the Result it returns once all of them were accepted.  "Seq"
\* stands for a structural call (seq_begin / map_begin).
SvalTokens ==
    {Unsigned(42), Str(<<97>>), [kind |-> "Seq", val |-> <<>>]}

RECURSIVE TokenSeqs(_)
TokenSeqs(n) ==
    IF n = 0 THEN {<<>>}
    ELSE LET shorter == TokenSeqs(n - 1)
         IN  shorter \cup {Append(ts, t) : ts \in shorter, t \in SvalTokens}

SvalVals == [tokens : TokenSeqs(MaxTokens), res : Result]

NoExt == [dbg |-> <<>>, disp |-> <<>>]
NoSval == [tokens |-> <<>>, res |-> "Ok"]

\* ------------------------------------------------------------------- Inner
\* enum Inner { Primitive, Fill, Debug, Display, Sval }.  For Fill, `filled`
\* is the variant of the value the fill operation hands to its slot, the
\* payload fields hold that value, and `fres` is the Result the fill
\* operation returns of its own after the slot was filled.
InnerPrimitive(p) ==
    [variant |-> "Primitive", filled |-> "-", prim |-> p, ext |-> NoExt,
     sv |-> NoSval, fres |-> "Ok"]
InnerDebug(v) ==
    [variant |-> "Debug", filled |-> "-", prim |-> PNone, ext |-> v,
     sv |-> NoSval, fres |-> "Ok"]
InnerDisplay(v) ==
    [variant |-> "Display", filled |-> "-", prim |-> PNone, ext |-> v,
     sv |-> NoSval, fres |-> "Ok"]
InnerSval(v) ==
    [variant |-> "Sval", filled |-> "-", prim |-> PNone, ext |-> NoExt,
     sv |-> v, fres |-> "Ok"]
InnerFill(c, r) == [c EXCEPT !.variant = "Fill", !.filled = c.variant, !.fres = r]

\* the value a Fill hands to its slot
FilledValue(c) == [c EXCEPT !.variant = c.filled, !.filled = "-", !.fres = "Ok"]

\* the variant that reaches the visitor
Dispatched(c) == IF c.variant = "Fill" THEN c.filled ELSE c.variant

\* ---------------------------------------------------------------- visitors
\* A visitor is a record: kind ("Coerce", "Fmt", "Test"), the Coerce state,
\* the text the formatter received and whether its sink accepts writes, the
\* Result every method of the counting test visitor returns, and the log of
\* the methods Inner::visit invoked on it with the Result each returned.
CoerceNew(std) ==
    [kind |-> "Coerce", state |-> CoercedPrimitive(PNone), out |-> <<>>,
     sinkOk |-> TRUE, ret |-> "Ok", calls |-> <<>>, std |-> std]
FmtVisitor(f, std) ==
    [kind |-> "Fmt", state |-> CoercedPrimitive(PNone), out |-> <<>>,
     sinkOk |-> f, ret |-> "Ok", calls |-> <<>>, std |-> std]
TestVisitor(r, std) ==
    [kind |-> "Test", state |-> CoercedPrimitive(PNone), out |-> <<>>,
     sinkOk |-> TRUE, ret |-> r, calls |-> <<>>, std |-> std]

Ok(vis) == [vis |-> vis, res |-> "Ok"]
Err(vis) == [vis |-> vis, res |-> "Err"]

\* fmt::Formatter: a write either reaches the sink or fails
Write(vis, text) ==
    IF vis.sinkOk THEN Ok([vis EXCEPT !.out = @ \o text]) ELSE Err(vis)

\* ---- sval_support::coerce: impl sval::Stream for Coerce
\* u64, i64, f64, char, bool are implemented; str only with std; every
\* other stream call keeps sval's default, which reports "unsupported".
Coerce_stream_str_always(st, tok, std) ==
    IF tok.kind \in {"Unsigned", "Signed", "Float", "Char", "Bool"}
    THEN [state |-> CoercedPrimitive(tok), res |-> "Ok"]
    ELSE IF tok.kind = "Str"
    THEN [state |-> CoercedString(tok.val), res |-> "Ok"]
    ELSE [state |-> st, res |-> "Err"]
Coerce_stream(st, tok, std) ==
    IF tok.kind \in {"Unsigned", "Signed", "Float", "Char", "Bool"}
    THEN [state |-> CoercedPrimitive(tok), res |-> "Ok"]
    ELSE IF tok.kind = "Str" /\ std
    THEN [state |-> CoercedString(tok.val), res |-> "Ok"]
    ELSE [state |-> st, res |-> "Err"]

\* sval::stream(&mut coerce, v): v makes its stream calls in order and stops
\* at the first one that fails; otherwise it returns its own Result.
RECURSIVE sval_stream(_, _, _, _)
sval_stream(st, v, i, std) ==
    IF i > Len(v.tokens) THEN [state |-> st, res |-> v.res]
    ELSE LET r == Coerce_stream(st, v.tokens[i], std)
         IN  IF r.res = "Err" THEN r ELSE sval_stream(r.state, v, i + 1, std)

sval_support_coerce(v, std) ==
    sval_stream(CoercedPrimitive(PNone), v, 1, std).state

\* sval_support::fmt: sval::fmt::debug writes the value's stream as text
RECURSIVE SvalText(_)
SvalText(ts) ==
    IF ts = <<>> THEN <<>>
    ELSE (IF Head(ts).kind = "Seq" THEN <<91>> ELSE DebugText(Head(ts)))
         \o SvalText(Tail(ts))

sval_support_fmt(vis, v) ==
    IF v.res = "Err" THEN Err(vis) ELSE Write(vis, SvalText(v.tokens))

\* ---- impl Visitor for Coerce
Coerce_debug_capture(vis, text) == Ok([vis EXCEPT !.state = CoercedString(text)])
Coerce_debug(vis, text) == Ok(vis)

Coerce_u64(vis, p) == Ok([vis EXCEPT !.state = CoercedPrimitive(Unsigned(p.val[1]))])

Coerce_i64_as_unsigned(vis, p) ==
    Ok([vis EXCEPT !.state = CoercedPrimitive(Unsigned(p.val[1]))])
Coerce_i64(vis, p) == Ok([vis EXCEPT !.state = CoercedPrimitive(Signed(p.val[1]))])

Coerce_f64(vis, p) == Ok([vis EXCEPT !.state = CoercedPrimitive(Float(p.val))])

Coerce_bool(vis, p) == Ok([vis EXCEPT !.state = CoercedPrimitive(Bool(p.val[1]))])

Coerce_char(vis, p) == Ok([vis EXCEPT !.state = CoercedPrimitive(Char(p.val[1]))])

Coerce_str_borrowed(vis, p) == Ok([vis EXCEPT !.state = CoercedPrimitive(Str(p.val))])
Coerce_str(vis, p) ==
    IF vis.std THEN Ok([vis EXCEPT !.state = CoercedString(p.val)]) ELSE Ok(vis)

Coerce_none(vis) == Ok([vis EXCEPT !.state = CoercedPrimitive(PNone)])

Coerce_sval(vis, v) == Ok([vis EXCEPT !.state = sval_support_coerce(v, vis.std)])

\* ---- impl Visitor for FmtVisitor
FmtVisitor_debug(vis, text) == Write(vis, text)

FmtVisitor_u64(vis, p) == FmtVisitor_debug(vis, DebugText(Unsigned(p.val[1])))

FmtVisitor_i64(vis, p) == FmtVisitor_debug(vis, DebugText(Signed(p.val[1])))

FmtVisitor_f64(vis, p) == FmtVisitor_debug(vis, DebugText(Float(p.val)))

FmtVisitor_bool(vis, p) == FmtVisitor_debug(vis, DebugText(Bool(p.val[1])))

FmtVisitor_char(vis, p) == FmtVisitor_debug(vis, DebugText(Char(p.val[1])))

FmtVisitor_str(vis, p) == FmtVisitor_debug(vis, DebugText(Str(p.val)))

FmtVisitor_none(vis) == FmtVisitor_debug(vis, NoneText)

FmtVisitor_sval(vis, v) == sval_support_fmt(vis, v)

\* ---- trait Visitor, resolved on the visitor's kind
Visitor_debug(vis, text) ==
    CASE vis.kind = "Coerce" -> Coerce_debug(vis, text)
      [] vis.kind = "Fmt" -> FmtVisitor_debug(vis, text)
      [] OTHER -> [vis |-> vis, res |-> vis.ret]

\* the provided method: self.debug(&format_args!("{}", v))
Visitor_display(vis, v) == Visitor_debug(vis, v.disp)

Visitor_u64(vis, p) ==
    CASE vis.kind = "Coerce" -> Coerce_u64(vis, p)
      [] vis.kind = "Fmt" -> FmtVisitor_u64(vis, p)
      [] OTHER -> [vis |-> vis, res |-> vis.ret]

Visitor_i64(vis, p) ==
    CASE vis.kind = "Coerce" -> Coerce_i64(vis, p)
      [] vis.kind = "Fmt" -> FmtVisitor_i64(vis, p)
      [] OTHER -> [vis |-> vis, res |-> vis.ret]

Visitor_f64(vis, p) ==
    CASE vis.kind = "Coerce" -> Coerce_f64(vis, p)
      [] vis.kind = "Fmt" -> FmtVisitor_f64(vis, p)
      [] OTHER -> [vis |-> vis, res |-> vis.ret]

Visitor_bool(vis, p) ==
    CASE vis.kind = "Coerce" -> Coerce_bool(vis, p)
      [] vis.kind = "Fmt" -> FmtVisitor_bool(vis, p)
      [] OTHER -> [vis |-> vis, res |-> vis.ret]

Visitor_char(vis, p) ==
    CASE vis.kind = "Coerce" -> Coerce_char(vis, p)
      [] vis.kind = "Fmt" -> FmtVisitor_char(vis, p)
      [] OTHER -> [vis |-> vis, res |-> vis.ret]

Visitor_str(vis, p) ==
    CASE vis.kind = "Coerce" -> Coerce_str(vis, p)
      [] vis.kind = "Fmt" -> FmtVisitor_str(vis, p)
      [] OTHER -> [vis |-> vis, res |-> vis.ret]

Visitor_none(vis) ==
    CASE vis.kind = "Coerce" -> Coerce_none(vis)
      [] vis.kind = "Fmt" -> FmtVisitor_none(vis)
      [] OTHER -> [vis |-> vis, res |-> vis.ret]

Visitor_sval(vis, v) ==
    CASE vis.kind = "Coerce" -> Coerce_sval(vis, v)
      [] vis.kind = "Fmt" -> FmtVisitor_sval(vis, v)
      [] OTHER -> [vis |-> vis, res |-> vis.ret]

\* One invocation of a Visitor method by Inner::visit, entered in the log
\* together with the Result the method returned.
Logged(m, r) ==
    [vis |-> [r.vis EXCEPT !.calls = Append(@, [m |-> m, res |-> r.res])],
     res |-> r.res]

\* ------------------------------------------------------------ Inner::visit
RECURSIVE Visit(_, _)

\* Slot::fill(value): the slot dispatches the value to the visitor it holds
Slot_fill(value, vis) == Visit(value, vis)

\* Fill::fill(&mut Slot::new(visitor)): the operation fills its slot once
\* and returns the slot's Result, or an error of its own
Fill_fill(c, vis) ==
    LET r == Slot_fill(FilledValue(c), vis)
    IN  IF c.fres = "Err" THEN Err(r.vis) ELSE r

VisitPrimitive(p, vis) ==
    CASE p.kind = "Signed" -> Logged("i64", Visitor_i64(vis, p))
      [] p.kind = "Unsigned" -> Logged("u64", Visitor_u64(vis, p))
      [] p.kind = "Float" -> Logged("f64", Visitor_f64(vis, p))
      [] p.kind = "Bool" -> Logged("bool", Visitor_bool(vis, p))
      [] p.kind = "Char" -> Logged("char", Visitor_char(vis, p))
      [] p.kind = "Str" -> Logged("str", Visitor_str(vis, p))
      [] OTHER -> Logged("none", Visitor_none(vis))

Visit_skips_none(c, vis) ==
    CASE c.variant = "Primitive" ->
            IF c.prim.kind = "None" THEN Ok(vis) ELSE VisitPrimitive(c.prim, vis)
      [] c.variant = "Fill" -> Fill_fill(c, vis)
      [] c.variant = "Debug" -> Logged("debug", Visitor_debug(vis, c.ext.dbg))
      [] c.variant = "Display" -> Logged("display", Visitor_display(vis, c.ext))
      [] OTHER -> Logged("sval", Visitor_sval(vis, c.sv))
Visit_swallows_error(c, vis) ==
    CASE c.variant = "Primitive" -> VisitPrimitive(c.prim, vis)
      [] c.variant = "Fill" -> Fill_fill(c, vis)
      [] c.variant = "Debug" ->
            Ok(Logged("debug", Visitor_debug(vis, c.ext.dbg)).vis)
      [] c.variant = "Display" -> Logged("display", Visitor_display(vis, c.ext))
      [] OTHER -> Logged("sval", Visitor_sval(vis, c.sv))
Visit(c, vis) ==
    CASE c.variant = "Primitive" -> VisitPrimitive(c.prim, vis)
      [] c.variant = "Fill" -> Fill_fill(c, vis)
      [] c.variant = "Debug" -> Logged("debug", Visitor_debug(vis, c.ext.dbg))
      [] c.variant = "Display" -> Logged("display", Visitor_display(vis, c.ext))
      [] OTHER -> Logged("sval", Visitor_sval(vis, c.sv))

\* ------------------------------------------------------------- projections
\* let mut coerce = Coerce::new(); let _ = self.visit(&mut coerce);
coerce_visit(c, std) == Visit(c, CoerceNew(std))

\* ... coerce.0
coerce(c, std) == coerce_visit(c, std).vis.state

\* the else branch of as_str
as_str_general(c, std) == into_str(into_primitive(coerce(c, std)))

as_str_no_shortcut(c, std) == as_str_general(c, std)
as_str(c, std) ==
    IF c.variant = "Primitive" /\ c.prim.kind = "Str" THEN Some(c.prim.val)
    ELSE as_str_general(c, std)

as_u64(c, std) == into_u64(into_primitive(coerce(c, std)))

as_i64(c, std) == into_i64(into_primitive(coerce(c, std)))

as_f64(c, std) == into_f64(into_primitive(coerce(c, std)))

as_char(c, std) == into_char(into_primitive(coerce(c, std)))

as_bool(c, std) == into_bool(into_primitive(coerce(c, std)))

to_str(c, std) == into_string(coerce(c, std))

Project(name, c, std) ==
    CASE name = "as_str" -> as_str(c, std)
      [] name = "as_u64" -> as_u64(c, std)
      [] name = "as_i64" -> as_i64(c, std)
      [] name = "as_f64" -> as_f64(c, std)
      [] name = "as_char" -> as_char(c, std)
      [] name = "as_bool" -> as_bool(c, std)
      [] OTHER -> to_str(c, std)

\* impl fmt::Debug / fmt::Display for kv::Value
Value_fmt_Debug(c, f, std) == Visit(c, FmtVisitor(f, std))

Value_fmt_Display_raw_str(c, f, std) ==
    IF c.variant = "Primitive" /\ c.prim.kind = "Str"
    THEN Logged("str", FmtVisitor_debug(FmtVisitor(f, std), c.prim.val))
    ELSE Visit(c, FmtVisitor(f, std))
Value_fmt_Display(c, f, std) == Visit(c, FmtVisitor(f, std))

\* ------------------------------------------------------------------- state
VARIABLES
    feature_std,    \* cfg(feature = "std")
    feature_sval,   \* cfg(feature = "kv_unstable_sval")
    inner,          \* the container under observation
    op,             \* the operation last applied to it
    ret,            \* the Option the last projection returned
    visited,        \* the visitor after the last visit, and the visit's Result
    coerced,        \* the Coerced the last projection obtained from coerce()
    dbg,            \* the last Debug rendering of the container
    disp            \* the last Display rendering of the container

vars == <<feature_std, feature_sval, inner, op, ret, visited, coerced, dbg, disp>>

NoVisit == [vis |-> CoerceNew(FALSE), res |-> "-"]
NoRender == [done |-> FALSE, sinkOk |-> TRUE, out |-> <<>>, res |-> "-"]

TypedProjections == {"as_str", "as_u64", "as_i64", "as_f64", "as_char", "as_bool"}
Projections == TypedProjections \cup {"to_str"}

\* the values a Fill can hand to its slot
Fillable(svalOn) ==
    {InnerPrimitive(p) : p \in Primitive}
    \cup {InnerDebug(v) : v \in ExtVals}
    \cup {InnerDisplay(v) : v \in ExtVals}
    \cup (IF svalOn THEN {InnerSval(v) : v \in SvalVals} ELSE {})

Init ==
    /\ feature_std \in BOOLEAN
    /\ feature_sval \in BOOLEAN
    /\ inner = InnerPrimitive(PNone)
    /\ op = "new"
    /\ ret = NoneOpt
    /\ visited = NoVisit
    /\ coerced = CoercedPrimitive(PNone)
    /\ dbg = NoRender
    /\ disp = NoRender

New(c) ==
    /\ inner' = c
    /\ op' = "new"
    /\ ret' = NoneOpt
    /\ visited' = NoVisit
    /\ coerced' = CoercedPrimitive(PNone)
    /\ dbg' = NoRender
    /\ disp' = NoRender
    /\ UNCHANGED <<feature_std, feature_sval>>

FromPrimitive == \E p \in Primitive : New(InnerPrimitive(p))

from_debug == \E v \in ExtVals : New(InnerDebug(v))

from_display == \E v \in ExtVals : New(InnerDisplay(v))

from_sval == feature_sval /\ \E v \in SvalVals : New(InnerSval(v))

from_fill == \E c \in Fillable(feature_sval), r \in Result : New(InnerFill(c, r))

ProjectionStep(name) ==
    /\ op' = name
    /\ ret' = Project(name, inner, feature_std)
    /\ visited' =
         IF name = "as_str" /\ inner.variant = "Primitive" /\ inner.prim.kind = "Str"
         THEN NoVisit
         ELSE coerce_visit(inner, feature_std)
    /\ coerced' =
         IF name = "as_str" /\ inner.variant = "Primitive" /\ inner.prim.kind = "Str"
         THEN CoercedPrimitive(PNone)
         ELSE coerce(inner, feature_std)
    /\ UNCHANGED <<feature_std, feature_sval, inner, dbg, disp>>

AsStr == ProjectionStep("as_str")

AsU64 == ProjectionStep("as_u64")

AsI64 == ProjectionStep("as_i64")

AsF64 == ProjectionStep("as_f64")

AsChar == ProjectionStep("as_char")

AsBool == ProjectionStep("as_bool")

ToStr == feature_std /\ ProjectionStep("to_str")

\* Inner::visit with a counting visitor whose methods all return r
VisitTest ==
    \E r \in Result :
        /\ op' = "visit"
        /\ visited' = Visit(inner, TestVisitor(r, feature_std))
        /\ UNCHANGED <<feature_std, feature_sval, inner, ret, coerced, dbg, disp>>

Rendering(f, r) == [done |-> TRUE, sinkOk |-> f, out |-> r.vis.out, res |-> r.res]

FmtDebug ==
    \E f \in BOOLEAN :
        LET r == Value_fmt_Debug(inner, f, feature_std)
        IN  /\ op' = "fmt_debug"
            /\ visited' = r
            /\ dbg' = Rendering(f, r)
            /\ UNCHANGED <<feature_std, feature_sval, inner, ret, coerced, disp>>

FmtDisplay ==
    \E f \in BOOLEAN :
        LET r == Value_fmt_Display(inner, f, feature_std)
        IN  /\ op' = "fmt_display"
            /\ visited' = r
            /\ disp' = Rendering(f, r)
            /\ UNCHANGED <<feature_std, feature_sval, inner, ret, coerced, dbg>>

Next ==
    \/ FromPrimitive
    \/ from_debug
    \/ from_display
    \/ from_sval
    \/ from_fill
    \/ AsStr
    \/ AsU64
    \/ AsI64
    \/ AsF64
    \/ AsChar
    \/ AsBool
    \/ ToStr
    \/ VisitTest
    \/ FmtDebug
    \/ FmtDisplay

Spec == Init /\ [][Next]_vars

\* ================================================================== claims
Matching(kind) ==
    CASE kind = "Unsigned" -> "as_u64"
      [] kind = "Signed" -> "as_i64"
      [] kind = "Float" -> "as_f64"
      [] kind = "Bool" -> "as_bool"
      [] kind = "Char" -> "as_char"
      [] kind = "Str" -> "as_str"
      [] OTHER -> "-"

Visiting == visited.res # "-"

\* C1: round trip.  A container Inner::Primitive(K(v)), K other than None,
\* returns Some(v) from the projection matching K.
C1_RoundTrip ==
    (inner.variant = "Primitive" /\ op = Matching(inner.prim.kind))
        => ret = Some(inner.prim.val)

C1_Witness ==
    /\ inner = InnerPrimitive(Signed(-7))
    /\ op = "as_i64"
    /\ ret = Some(<<-7>>)

\* C2: mismatched projection.  When the value dispatched is a primitive of
\* kind K, every typed projection other than the one matching K returns
\* None; a None primitive returns None from every typed projection.
C2_Mismatch ==
    (/\ op \in TypedProjections
     /\ Dispatched(inner) = "Primitive"
     /\ op # Matching(inner.prim.kind))
        => ret = NoneOpt

C2_Witness ==
    /\ inner = InnerPrimitive(Signed(42))
    /\ op = "as_u64"
    /\ ret = NoneOpt

\* C3: exactly-once dispatch.  One call of Inner::visit invokes exactly one
\* Visitor method, once, whatever the variant and the visitor.
C3_ExactlyOnce == Visiting => Len(visited.vis.calls) = 1

C3_Witness ==
    /\ op = "visit"
    /\ inner.variant = "Fill"
    /\ inner.filled = "Display"
    /\ Len(visited.vis.calls) = 1
    /\ visited.vis.calls[1].m = "display"

\* C4: a Debug or Display container returns None from every projection,
\* to_str included, and the coercion state stays at its initial None.
C4_DebugDisplayAbsent ==
    (inner.variant \in {"Debug", "Display"} /\ op \in Projections)
        => (ret = NoneOpt /\ coerced = CoercedPrimitive(PNone))

C4_Witness ==
    /\ inner.variant = "Display"
    /\ inner.ext.disp = <<120>>
    /\ op = "to_str"
    /\ ret = NoneOpt

\* C5: the Debug and the Display rendering of a container write the same
\* text to (equally behaving) sinks and return the same Result; for a
\* primitive container the text written is the primitive's debug text.
C5_SameRendering ==
    /\ (dbg.done /\ disp.done /\ dbg.sinkOk = disp.sinkOk)
          => (dbg.out = disp.out /\ dbg.res = disp.res)
    /\ (inner.variant = "Primitive" /\ dbg.done /\ dbg.sinkOk)
          => dbg.out = DebugText(inner.prim)
    /\ (inner.variant = "Primitive" /\ disp.done /\ disp.sinkOk)
          => disp.out = DebugText(inner.prim)

C5_Witness ==
    /\ inner = InnerPrimitive(Str(<<34>>))
    /\ dbg.done /\ dbg.sinkOk
    /\ disp.done /\ disp.sinkOk
    /\ disp.out = <<34, 92, 34, 34>>

FillOfPrimitive == inner.variant = "Fill" /\ inner.filled = "Primitive"

\* C6, as stated: a Fill container whose fill operation fills its slot with
\* the primitive p returns, from every typed projection, what
\* Inner::Primitive(p) returns.
C6_Original ==
    (op \in TypedProjections /\ FillOfPrimitive)
        => ret = Project(op, InnerPrimitive(inner.prim), feature_std)

\* C6, amended: the same, except for as_str on a Str primitive, where
\* Inner::Primitive(Str(s)) returns Some(s) and the Fill container None.
C6_Amended ==
    (op \in TypedProjections /\ FillOfPrimitive)
        => IF op = "as_str" /\ inner.prim.kind = "Str"
           THEN /\ ret = NoneOpt
                /\ as_str(InnerPrimitive(inner.prim), feature_std)
                     = Some(inner.prim.val)
           ELSE ret = Project(op, InnerPrimitive(inner.prim), feature_std)

C6_Witness ==
    /\ FillOfPrimitive
    /\ inner.prim = Str(<<97>>)
    /\ op = "as_str"
    /\ ret = NoneOpt

\* C7: Inner::visit returns exactly the Result of the Visitor method it
\* invoked, or, for Fill, the Result of the fill operation.
C7_NoManufacturedError ==
    Visiting =>
        /\ Len(visited.vis.calls) >= 1
        /\ visited.res =
             IF inner.variant = "Fill" /\ inner.fres = "Err" THEN "Err"
             ELSE visited.vis.calls[1].res

C7_Witness ==
    /\ op = "visit"
    /\ inner.variant = "Debug"
    /\ visited.vis.calls = <<[m |-> "debug", res |-> "Err"]>>
    /\ visited.res = "Err"

StreamsOnly(tok) == inner.variant = "Sval" /\ inner.sv = [tokens |-> <<tok>>, res |-> "Ok"]

\* C8: a from_sval container that streams the unsigned n returns Some(n)
\* from as_u64 and None from as_str; one that streams the string s returns
\* None from as_str and Some(s) from to_str (std); without std the coercion
\* state stays None.
C8_SvalCoercion ==
    /\ \A n \in U64Vals :
          StreamsOnly(Unsigned(n)) =>
              /\ op = "as_u64" => ret = Some(<<n>>)
              /\ op = "as_str" => ret = NoneOpt
    /\ \A s \in StrVals :
          StreamsOnly(Str(s)) =>
              /\ op = "as_str" => ret = NoneOpt
              /\ op = "to_str" => ret = Some(s)
              /\ (op \in Projections /\ ~feature_std)
                    => coerced = CoercedPrimitive(PNone)

C8_Witness ==
    /\ StreamsOnly(Str(<<97>>))
    /\ op = "to_str"
    /\ ret = Some(<<97>>)

StrPrimitive == inner.variant = "Primitive" /\ inner.prim.kind = "Str"

\* C9, as stated: for Inner::Primitive(Str(s)) the value as_str returns is
\* the value the general path coerce().into_primitive().into_str() returns.
C9_Original ==
    (op = "as_str" /\ StrPrimitive) => ret = as_str_general(inner, feature_std)

\* C9, amended: for Inner::Primitive(Str(s)) as_str returns Some(s), and the
\* general path returns None for that container, with and without std.
C9_Amended ==
    (op = "as_str" /\ StrPrimitive)
        => /\ ret = Some(inner.prim.val)
           /\ as_str_general(inner, feature_std) = NoneOpt

C9_Witness ==
    /\ inner = InnerPrimitive(Str(<<97>>))
    /\ op = "as_str"
    /\ ret = Some(<<97>>)
    /\ ~feature_std

\* the visitation coerce() ran returned an error: the visit itself (a Fill's
\* fill operation), or the stream inside sval_support::coerce
CoercionFailed ==
    \/ visited.res = "Err"
    \/ /\ Visiting
       /\ Dispatched(inner) = "Sval"
       /\ sval_stream(CoercedPrimitive(PNone), inner.sv, 1, feature_std).res = "Err"

\* C10: whenever the visitation coerce() runs returns an error, also after
\* a value was delivered, every projection returns None.
C10_FailureIsAbsence ==
    (op \in Projections /\ CoercionFailed) => ret = NoneOpt
====
